---- MODULE Spec2Model ----
(***************************************************************************)
(* Model of the stop-handle crate (src/src/lib.rs).                        *)
(*                                                                         *)
(* stop_handle() builds one oneshot channel, puts the Sender into an       *)
(* Arc<Mutex<Option<Sender>>> owned by the StopHandle clones, and wraps    *)
(* the Receiver in a Fuse owned by the single StopWait.                    *)
(*                                                                         *)
(* The channel (futures::channel::oneshot) is modelled by the steps its    *)
(* operations make on the shared Inner: the `complete` flag, the `data`    *)
(* cell and the `rx_task` waker cell with its try-lock.  Each atomic load, *)
(* store or try_lock of a call is one action, so that a poll can fall      *)
(* between any two steps of a send or of a drop.                           *)
(***************************************************************************)
EXTENDS Integers, FiniteSets, Sequences, TLC

\* Largest number of StopHandle clones alive at the same time.  Every clone is
\* owned by a thread of its own, which calls stop on it and drops it.
MaxHandles == 2
\* Number of distinct reasons a stop call may carry.
NumReasons == 2

Handles == 1..MaxHandles
Reasons == 1..NumReasons

VARIABLES
    handles,    \* the StopHandle clones that are alive (Arc strong count = size)
    slot,       \* Mutex<Option<Sender>>: TRUE = Some(tx), FALSE = None
    guard,      \* the thread holding the MutexGuard, 0 when unlocked
    pc,         \* per thread: position inside stop / drop
    arg,        \* per thread: the reason passed to the running stop call
    complete,   \* oneshot Inner.complete
    data,       \* oneshot Inner.data: 0 = None, r = Some(r)
    rx_task,    \* oneshot Inner.rx_task holds a waker
    rx_lock,    \* holder of the rx_task try-lock: "free", "tx" or "rx"
    wait,       \* the StopWait value: "alive" or "dropped"
    fuse,       \* Fuse.inner is Some(receiver)
    wpc,        \* position of the waiter inside poll
    done,       \* local `done` of the receiver's poll
    notified,   \* the waiter's task has been woken and not polled since
    ret,        \* what the last finished poll returned
    termSeen,   \* what the last is_terminated call returned
    outcome,    \* history: the first Ready value a poll returned
    reready,    \* history: a poll returned Ready more than once
    takes,      \* history: number of stop calls that took the endpoint (capped at 2)
    winner,     \* history: reason of the stop call that took the endpoint first
    signalAt,   \* history: what the waiter was doing when the sender completed
    order,      \* history: "none" (no stop call yet), "first" (the first call is
                \* running alone), "sequential" (it returned before any other
                \* call was made), "overlapped" (another call was made meanwhile)
    firstArg,   \* history: reason of the first stop call unless overlapped, else 0
    firstBy     \* history: thread running the first stop call alone, else 0

vars == <<handles, slot, guard, pc, arg, complete, data, rx_task, rx_lock,
          wait, fuse, wpc, done, notified, ret, termSeen, outcome, reready,
          takes, winner, signalAt, order, firstArg, firstBy>>

handleVars == <<handles, slot, guard, pc, arg>>
chanVars   == <<complete, data, rx_task, rx_lock>>
waitVars   == <<wait, fuse, wpc, done, ret, termSeen>>
histVars   == <<outcome, reready, takes, winner, signalAt, order, firstArg, firstBy>>

\* StopReason<T> and the values of Poll<StopReason<T>>.
NoValue      == [kind |-> "None", reason |-> 0]
Pending      == [kind |-> "Pending", reason |-> 0]
HandleLost   == [kind |-> "HandleLost", reason |-> 0]
Requested(r) == [kind |-> "Requested", reason |-> r]

\* Variant of MapResult: every result of the receiver is reported as a lost
\* handle.
MapResultLost(res) == HandleLost

\* StopWait::poll: Err(_) => HandleLost, Ok(reason) => Requested(reason).
\* res is what the receiver yielded: 0 for Err(Canceled), r for Ok(r).
MapResult(res) == IF res = 0 THEN HandleLost ELSE Requested(res)

\* Variant of is_terminated: reports the state of the channel instead of the
\* state of the wait.
is_terminated_by_channel == complete

\* Variant of is_terminated: never reports termination.
is_terminated_never == FALSE

\* FusedFuture::is_terminated: Fuse reports whether its inner future is gone.
is_terminated == ~fuse

Init ==
    /\ handles = {1}
    /\ slot = TRUE
    /\ guard = 0
    /\ pc = [c \in Handles |-> "idle"]
    /\ arg = [c \in Handles |-> 0]
    /\ complete = FALSE
    /\ data = 0
    /\ rx_task = FALSE
    /\ rx_lock = "free"
    /\ wait = "alive"
    /\ fuse = TRUE
    /\ wpc = "idle"
    /\ done = FALSE
    /\ notified = FALSE
    /\ ret = NoValue
    /\ termSeen = FALSE
    /\ outcome = NoValue
    /\ reready = FALSE
    /\ takes = 0
    /\ winner = 0
    /\ signalAt = "none"
    /\ order = "none"
    /\ firstArg = 0
    /\ firstBy = 0

(***************************************************************************)
(* StopHandle: clone, stop, drop                                           *)
(***************************************************************************)

\* Variant of Clone: the clone is built around a fresh Some(..) slot instead of
\* sharing the existing one, so cloning re-arms an already used slot.
CloneRearm(h) ==
    /\ h \in handles
    /\ pc[h] = "idle"
    /\ \E n \in Handles \ handles : pc[n] = "idle"
    /\ handles' = handles \cup
                    {CHOOSE n \in Handles \ handles :
                        /\ pc[n] = "idle"
                        /\ \A m \in Handles \ handles : pc[m] = "idle" => n <= m}
    /\ slot' = TRUE
    /\ UNCHANGED <<guard, pc, arg>>
    /\ UNCHANGED <<chanVars, waitVars, notified, histVars>>

\* Clone for StopHandle: Arc::clone adds one owner of the same slot.  The new
\* clone gets the smallest free identity whose previous owner has finished.
Clone(h) ==
    /\ h \in handles
    /\ pc[h] = "idle"
    /\ \E n \in Handles \ handles : pc[n] = "idle"
    /\ handles' = handles \cup
                    {CHOOSE n \in Handles \ handles :
                        /\ pc[n] = "idle"
                        /\ \A m \in Handles \ handles : pc[m] = "idle" => n <= m}
    /\ UNCHANGED <<slot, guard, pc, arg>>
    /\ UNCHANGED <<chanVars, waitVars, notified, histVars>>

\* The owner of clone c calls c.stop(r).
StopCall(c, r) ==
    /\ pc[c] = "idle"
    /\ c \in handles
    /\ pc' = [pc EXCEPT ![c] = "lock"]
    /\ arg' = [arg EXCEPT ![c] = r]
    /\ order' = CASE order = "none"  -> "first"
                  [] order = "first" -> "overlapped"
                  [] OTHER           -> order
    /\ firstArg' = CASE order = "none"  -> r
                     [] order = "first" -> 0
                     [] OTHER           -> firstArg
    /\ firstBy' = IF order = "none" THEN c ELSE 0
    /\ UNCHANGED <<handles, slot, guard>>
    /\ UNCHANGED <<chanVars, waitVars, notified, outcome, reready, takes, winner, signalAt>>

\* Variant of LockTake: a call that finds the slot empty discards the value
\* waiting in the channel.
LockTakeEmptyClears(c) ==
    /\ pc[c] = "lock"
    /\ guard = 0
    /\ guard' = c
    /\ IF slot
         THEN /\ slot' = FALSE
              /\ pc' = [pc EXCEPT ![c] = "send"]
              /\ takes' = IF takes < 2 THEN takes + 1 ELSE takes
              /\ winner' = IF winner = 0 THEN arg[c] ELSE winner
              /\ UNCHANGED data
         ELSE /\ pc' = [pc EXCEPT ![c] = "unlock"]
              /\ data' = 0
              /\ UNCHANGED <<slot, takes, winner>>
    /\ UNCHANGED <<handles, arg>>
    /\ UNCHANGED <<complete, rx_task, rx_lock, waitVars, notified, outcome, reready,
                   signalAt, order, firstArg, firstBy>>

\* Variant of LockTake: a call that finds the slot empty wakes the waiter's
\* task all the same.
LockTakeEmptyWakes(c) ==
    /\ pc[c] = "lock"
    /\ guard = 0
    /\ guard' = c
    /\ IF slot
         THEN /\ slot' = FALSE
              /\ pc' = [pc EXCEPT ![c] = "send"]
              /\ takes' = IF takes < 2 THEN takes + 1 ELSE takes
              /\ winner' = IF winner = 0 THEN arg[c] ELSE winner
              /\ UNCHANGED notified
         ELSE /\ pc' = [pc EXCEPT ![c] = "unlock"]
              /\ notified' = TRUE
              /\ UNCHANGED <<slot, takes, winner>>
    /\ UNCHANGED <<handles, arg>>
    /\ UNCHANGED <<chanVars, waitVars, outcome, reready, signalAt, order, firstArg,
                   firstBy>>

\* Variant of LockTake: the endpoint is read without being taken out of the
\* Option, so the slot stays Some.
LockTakeKeep(c) ==
    /\ pc[c] = "lock"
    /\ guard = 0
    /\ guard' = c
    /\ IF slot
         THEN /\ pc' = [pc EXCEPT ![c] = "send"]
              /\ takes' = IF takes < 2 THEN takes + 1 ELSE takes
              /\ winner' = IF winner = 0 THEN arg[c] ELSE winner
         ELSE /\ pc' = [pc EXCEPT ![c] = "unlock"]
              /\ UNCHANGED <<takes, winner>>
    /\ UNCHANGED <<handles, slot, arg>>
    /\ UNCHANGED <<chanVars, waitVars, notified, outcome, reready, signalAt,
                   order, firstArg, firstBy>>

\* self.inner.lock().unwrap().take(): the guard is acquired and, under it, the
\* Option is taken.  The guard is a temporary of the `if let` scrutinee, so it
\* is still held while the body runs.
LockTake(c) ==
    /\ pc[c] = "lock"
    /\ guard = 0
    /\ guard' = c
    /\ IF slot
         THEN /\ slot' = FALSE
              /\ pc' = [pc EXCEPT ![c] = "send"]
              /\ takes' = IF takes < 2 THEN takes + 1 ELSE takes
              /\ winner' = IF winner = 0 THEN arg[c] ELSE winner
         ELSE /\ pc' = [pc EXCEPT ![c] = "unlock"]
              /\ UNCHANGED <<slot, takes, winner>>
    /\ UNCHANGED <<handles, arg>>
    /\ UNCHANGED <<chanVars, waitVars, notified, outcome, reready, signalAt,
                   order, firstArg, firstBy>>

\* Variant of SendCheck: the value is written whether or not the receiver is
\* still there.
SendCheckNoCheck(c) ==
    /\ pc[c] = "send"
    /\ pc' = [pc EXCEPT ![c] = "send_store"]
    /\ UNCHANGED <<handles, slot, guard, arg>>
    /\ UNCHANGED <<chanVars, waitVars, notified, histVars>>

\* Variant of SendCheck: the channel is marked complete before the value is
\* written.
SendCheckEarlyComplete(c) ==
    /\ pc[c] = "send"
    /\ pc' = [pc EXCEPT ![c] = IF complete THEN "dtx_store" ELSE "send_store"]
    /\ complete' = TRUE
    /\ UNCHANGED <<handles, slot, guard, arg>>
    /\ UNCHANGED <<data, rx_task, rx_lock, waitVars, notified, histVars>>

\* tx.send(reason), first load of `complete`: a receiver that is already gone
\* makes the send return Err(reason); the sender is then dropped.
SendCheck(c) ==
    /\ pc[c] = "send"
    /\ pc' = [pc EXCEPT ![c] = IF complete THEN "dtx_store" ELSE "send_store"]
    /\ UNCHANGED <<handles, slot, guard, arg>>
    /\ UNCHANGED <<chanVars, waitVars, notified, histVars>>

\* Variant of SendStore: a fixed value is transmitted instead of the reason
\* the caller passed.
SendStoreFixed(c) ==
    /\ pc[c] = "send_store"
    /\ data' = 1
    /\ pc' = [pc EXCEPT ![c] = "send_recheck"]
    /\ UNCHANGED <<handles, slot, guard, arg>>
    /\ UNCHANGED <<complete, rx_task, rx_lock, waitVars, notified, histVars>>

\* tx.send(reason): the reason is written into the data cell.
SendStore(c) ==
    /\ pc[c] = "send_store"
    /\ data' = arg[c]
    /\ pc' = [pc EXCEPT ![c] = "send_recheck"]
    /\ UNCHANGED <<handles, slot, guard, arg>>
    /\ UNCHANGED <<complete, rx_task, rx_lock, waitVars, notified, histVars>>

\* tx.send(reason), second load of `complete`: if the receiver went away in
\* between, the value is taken back and Err(reason) is returned (and ignored
\* by `let _ =`).  Then the sender, consumed by send, is dropped.
SendRecheck(c) ==
    /\ pc[c] = "send_recheck"
    /\ data' = IF complete THEN 0 ELSE data
    /\ pc' = [pc EXCEPT ![c] = "dtx_store"]
    /\ UNCHANGED <<handles, slot, guard, arg>>
    /\ UNCHANGED <<complete, rx_task, rx_lock, waitVars, notified, histVars>>

\* Where a caller continues after the sender has been dropped: a stop call
\* still has to release the guard, a drop of the last handle is finished.
AfterDropTx(c) == IF guard = c THEN "unlock" ELSE "idle"

\* What the waiter is doing: not polled yet, suspended after a Pending poll,
\* inside a poll, or finished (resolved or dropped).
WaiterState ==
    CASE wait = "dropped" \/ ~fuse -> "finished"
      [] wpc # "idle"             -> "polling"
      [] ret = Pending            -> "suspended"
      [] OTHER                    -> "unpolled"

\* Sender::drop, first step: the channel is marked complete.
DropTxStore(c) ==
    /\ pc[c] = "dtx_store"
    /\ complete' = TRUE
    /\ pc' = [pc EXCEPT ![c] = "dtx_lock"]
    /\ signalAt' = WaiterState
    /\ UNCHANGED <<handles, slot, guard, arg>>
    /\ UNCHANGED <<data, rx_task, rx_lock, waitVars, notified, outcome, reready,
                   takes, winner, order, firstArg, firstBy>>

\* Sender::drop, second step: try_lock of the receiver's waker cell.  When the
\* receiver holds it, the wake is skipped (the receiver rechecks `complete`).
DropTxLock(c) ==
    /\ pc[c] = "dtx_lock"
    /\ IF rx_lock = "free"
         THEN /\ rx_lock' = "tx"
              /\ pc' = [pc EXCEPT ![c] = "dtx_wake"]
         ELSE /\ pc' = [pc EXCEPT ![c] = AfterDropTx(c)]
              /\ UNCHANGED rx_lock
    /\ UNCHANGED <<handles, slot, guard, arg>>
    /\ UNCHANGED <<complete, data, rx_task, waitVars, notified, histVars>>

\* Variant of DropTxWake: the stored waker is taken but not woken.
DropTxWakeNoWake(c) ==
    /\ pc[c] = "dtx_wake"
    /\ rx_lock' = "free"
    /\ rx_task' = FALSE
    /\ pc' = [pc EXCEPT ![c] = AfterDropTx(c)]
    /\ UNCHANGED <<handles, slot, guard, arg>>
    /\ UNCHANGED <<complete, data, waitVars, notified, histVars>>

\* Sender::drop, third step: the stored waker is taken and woken.
DropTxWake(c) ==
    /\ pc[c] = "dtx_wake"
    /\ rx_lock' = "free"
    /\ rx_task' = FALSE
    /\ notified' = (notified \/ rx_task)
    /\ pc' = [pc EXCEPT ![c] = AfterDropTx(c)]
    /\ UNCHANGED <<handles, slot, guard, arg>>
    /\ UNCHANGED <<complete, data, waitVars, histVars>>

\* Variant of Return: the call puts an endpoint back into the slot before it
\* returns.
ReturnRearm(c) ==
    /\ pc[c] = "unlock"
    /\ guard' = IF guard = c THEN 0 ELSE guard
    /\ pc' = [pc EXCEPT ![c] = "idle"]
    /\ arg' = [arg EXCEPT ![c] = 0]
    /\ order' = IF order = "first" /\ firstBy = c THEN "sequential" ELSE order
    /\ firstBy' = 0
    /\ slot' = TRUE
    /\ UNCHANGED handles
    /\ UNCHANGED <<chanVars, waitVars, notified, outcome, reready, takes, winner,
                   signalAt, firstArg>>

\* Variant of Return: the call returns without releasing the guard.
ReturnKeepGuard(c) ==
    /\ pc[c] = "unlock"
    /\ pc' = [pc EXCEPT ![c] = "idle"]
    /\ arg' = [arg EXCEPT ![c] = 0]
    /\ order' = IF order = "first" /\ firstBy = c THEN "sequential" ELSE order
    /\ firstBy' = 0
    /\ UNCHANGED <<handles, slot, guard>>
    /\ UNCHANGED <<chanVars, waitVars, notified, outcome, reready, takes, winner,
                   signalAt, firstArg>>

\* End of the `if let` statement in stop: the guard is released and the call
\* returns.
Return(c) ==
    /\ pc[c] = "unlock"
    /\ guard' = IF guard = c THEN 0 ELSE guard
    /\ pc' = [pc EXCEPT ![c] = "idle"]
    /\ arg' = [arg EXCEPT ![c] = 0]
    /\ order' = IF order = "first" /\ firstBy = c THEN "sequential" ELSE order
    /\ firstBy' = 0
    /\ UNCHANGED <<handles, slot>>
    /\ UNCHANGED <<chanVars, waitVars, notified, outcome, reready, takes, winner,
                   signalAt, firstArg>>

\* Variant of DropHandle: the slot's content outlives the last clone (the
\* sender is leaked instead of dropped).
DropHandleLeak(c) ==
    /\ pc[c] = "idle"
    /\ c \in handles
    /\ handles' = handles \ {c}
    /\ UNCHANGED <<slot, pc, guard, arg>>
    /\ UNCHANGED <<chanVars, waitVars, notified, histVars>>

\* Variant of DropHandle: every clone owns the sender, so dropping any clone
\* drops it.
DropHandleAny(c) ==
    /\ pc[c] = "idle"
    /\ c \in handles
    /\ handles' = handles \ {c}
    /\ IF slot
         THEN /\ slot' = FALSE
              /\ pc' = [pc EXCEPT ![c] = "dtx_store"]
         ELSE UNCHANGED <<slot, pc>>
    /\ UNCHANGED <<guard, arg>>
    /\ UNCHANGED <<chanVars, waitVars, notified, histVars>>

\* The owner of clone c drops it (not while a call on it is running).  The
\* last owner frees the Arc: a sender still in the slot is dropped with it.
DropHandle(c) ==
    /\ pc[c] = "idle"
    /\ c \in handles
    /\ handles' = handles \ {c}
    /\ IF handles = {c} /\ slot
         THEN /\ slot' = FALSE
              /\ pc' = [pc EXCEPT ![c] = "dtx_store"]
         ELSE UNCHANGED <<slot, pc>>
    /\ UNCHANGED <<guard, arg>>
    /\ UNCHANGED <<chanVars, waitVars, notified, histVars>>

(***************************************************************************)
(* StopWait: poll, is_terminated, drop                                     *)
(***************************************************************************)

\* Receiver::drop (also run when Fuse discards the finished receiver): the
\* channel is marked complete and the stored waker is discarded if its cell
\* can be locked.
RxTaskAfterDropRx == IF rx_lock = "free" THEN FALSE ELSE rx_task

\* Variant of PollBegin: the poll goes to the receiver whether or not the Fuse
\* still holds it.
PollBeginUnfused ==
    /\ wait = "alive"
    /\ wpc = "idle"
    /\ notified' = FALSE
    /\ wpc' = "recv_check"
    /\ UNCHANGED <<wait, fuse, done, ret, termSeen>>
    /\ UNCHANGED <<handleVars, chanVars, histVars>>

\* The task is polled: StopWait::poll calls Fuse::poll, which returns Pending at
\* once when the inner receiver is gone and polls the receiver otherwise.
PollBegin ==
    /\ wait = "alive"
    /\ wpc = "idle"
    /\ notified' = FALSE
    /\ IF fuse
         THEN /\ wpc' = "recv_check"
              /\ UNCHANGED ret
         ELSE /\ ret' = Pending
              /\ UNCHANGED wpc
    /\ UNCHANGED <<wait, fuse, done, termSeen>>
    /\ UNCHANGED <<handleVars, chanVars, histVars>>

\* Receiver poll, first load of `complete`.
RecvCheck ==
    /\ wpc = "recv_check"
    /\ IF complete
         THEN /\ done' = TRUE
              /\ wpc' = "recv_final"
         ELSE /\ wpc' = "recv_lock"
              /\ UNCHANGED done
    /\ UNCHANGED <<wait, fuse, ret, termSeen, notified>>
    /\ UNCHANGED <<handleVars, chanVars, histVars>>

\* Receiver poll: try_lock of the waker cell; a failed try_lock means the
\* sender is completing, which counts as done.
RecvLock ==
    /\ wpc = "recv_lock"
    /\ IF rx_lock = "free"
         THEN /\ rx_lock' = "rx"
              /\ wpc' = "recv_store"
              /\ UNCHANGED done
         ELSE /\ done' = TRUE
              /\ wpc' = "recv_final"
              /\ UNCHANGED rx_lock
    /\ UNCHANGED <<wait, fuse, ret, termSeen, notified>>
    /\ UNCHANGED <<handleVars, complete, data, rx_task, histVars>>

\* Receiver poll: the task's waker is stored and the cell unlocked.
RecvStore ==
    /\ wpc = "recv_store"
    /\ rx_task' = TRUE
    /\ rx_lock' = "free"
    /\ done' = FALSE
    /\ wpc' = "recv_final"
    /\ UNCHANGED <<wait, fuse, ret, termSeen, notified>>
    /\ UNCHANGED <<handleVars, complete, data, histVars>>

\* Variant of RecvFinal: the receiver is not fused, so it is kept (and polled
\* again) after it has yielded its result.
RecvFinalNoFuse ==
    /\ wpc = "recv_final"
    /\ wpc' = "idle"
    /\ done' = FALSE
    /\ IF done \/ complete
         THEN /\ ret' = MapResult(data)
              /\ data' = 0
              /\ outcome' = IF outcome = NoValue THEN MapResult(data) ELSE outcome
              /\ reready' = (reready \/ outcome # NoValue)
         ELSE /\ ret' = Pending
              /\ UNCHANGED <<data, outcome, reready>>
    /\ UNCHANGED <<wait, fuse, complete, rx_task, termSeen, notified, rx_lock>>
    /\ UNCHANGED <<handleVars, takes, winner, signalAt, order, firstArg, firstBy>>

\* Receiver poll, second load of `complete`: when the channel is complete the
\* data cell decides between Ok(value) and Err(Canceled); StopWait::poll maps
\* the result, Fuse clears its inner future (dropping the receiver) and the
\* poll returns Ready.  Otherwise the poll returns Pending.
RecvFinal ==
    /\ wpc = "recv_final"
    /\ wpc' = "idle"
    /\ done' = FALSE
    /\ IF done \/ complete
         THEN /\ ret' = MapResult(data)
              /\ data' = 0
              /\ fuse' = FALSE
              /\ complete' = TRUE
              /\ rx_task' = RxTaskAfterDropRx
              /\ outcome' = IF outcome = NoValue THEN MapResult(data) ELSE outcome
              /\ reready' = (reready \/ outcome # NoValue)
         ELSE /\ ret' = Pending
              /\ UNCHANGED <<data, fuse, complete, rx_task, outcome, reready>>
    /\ UNCHANGED <<wait, termSeen, notified, rx_lock>>
    /\ UNCHANGED <<handleVars, takes, winner, signalAt, order, firstArg, firstBy>>

\* FusedFuture::is_terminated is called on the wait (between polls).
CheckTerminated ==
    /\ wait = "alive"
    /\ wpc = "idle"
    /\ termSeen' = is_terminated
    /\ UNCHANGED <<wait, fuse, wpc, done, ret, notified>>
    /\ UNCHANGED <<handleVars, chanVars, histVars>>

\* Variant of WaitDrop: dropping the wait also empties the slot of the handles.
WaitDropClearsSlot ==
    /\ wait = "alive"
    /\ wpc = "idle"
    /\ wait' = "dropped"
    /\ slot' = FALSE
    /\ IF fuse
         THEN /\ complete' = TRUE
              /\ rx_task' = RxTaskAfterDropRx
         ELSE UNCHANGED <<complete, rx_task>>
    /\ UNCHANGED <<fuse, wpc, done, ret, termSeen, notified>>
    /\ UNCHANGED <<handles, guard, pc, arg, data, rx_lock, histVars>>

\* The StopWait is dropped (between polls); a receiver still inside the Fuse is
\* dropped with it.
WaitDrop ==
    /\ wait = "alive"
    /\ wpc = "idle"
    /\ wait' = "dropped"
    /\ IF fuse
         THEN /\ complete' = TRUE
              /\ rx_task' = RxTaskAfterDropRx
         ELSE UNCHANGED <<complete, rx_task>>
    /\ UNCHANGED <<fuse, wpc, done, ret, termSeen, notified>>
    /\ UNCHANGED <<handleVars, data, rx_lock, histVars>>

(***************************************************************************)
(* Specifications                                                          *)
(***************************************************************************)

\* The steps a caller makes inside a running stop or drop.
CallerStep(c) ==
    \/ LockTake(c)
    \/ SendCheck(c)
    \/ SendStore(c)
    \/ SendRecheck(c)
    \/ DropTxStore(c)
    \/ DropTxLock(c)
    \/ DropTxWake(c)
    \/ Return(c)

\* The steps of a running poll.
PollStep ==
    \/ RecvCheck
    \/ RecvLock
    \/ RecvStore
    \/ RecvFinal

Next ==
    \/ \E h \in Handles : Clone(h)
    \/ \E c \in Handles, r \in Reasons : StopCall(c, r)
    \/ \E c \in Handles : DropHandle(c)
    \/ \E c \in Handles : CallerStep(c)
    \/ PollBegin
    \/ PollStep
    \/ CheckTerminated
    \/ WaitDrop

Spec == Init /\ [][Next]_vars

\* The executor polls the task when it is new or has been woken.
Runnable == notified \/ ret = NoValue

\* Threads keep running (a started call makes its steps), a started poll
\* runs to its end, and the executor polls a runnable task.
FairSpec ==
    /\ Spec
    /\ \A c \in Handles : WF_vars(CallerStep(c))
    /\ WF_vars(PollStep)
    /\ WF_vars(Runnable /\ PollBegin)

\* Only the threads are scheduled: a thread whose next step is possible again
\* and again makes it.  For a thread waiting for the mutex this says that it
\* gets the mutex if the mutex is free again and again; every other step is
\* possible as long as it has not been made.  Nothing is assumed about the
\* waiter, which may stop at any point, inside a poll or outside.
CallerFairSpec ==
    /\ Spec
    /\ \A c \in Handles : SF_vars(CallerStep(c))

(***************************************************************************)
(* Properties                                                              *)
(***************************************************************************)

\* A thread is transmitting: it took the endpoint and is inside send or the
\* drop of the sender that ends it.
Sending(c) ==
    /\ guard = c
    /\ pc[c] \in {"send", "send_store", "send_recheck", "dtx_store", "dtx_lock", "dtx_wake"}

\* C1: when the first stop call ran alone (it returned before any other stop
\* call was made, on the same handle or on a clone made at any time), only
\* that call delivers: it is the one call that took the endpoint, the slot
\* is empty for every later call, which therefore transmits nothing, and the
\* wait resolves to nothing but Requested(reason of the first call).
C1_FirstStopWins ==
    /\ order \in {"first", "sequential"} =>
          /\ winner \in {0, firstArg}
          /\ data \in {0, firstArg}
          /\ outcome \in {NoValue, Requested(firstArg)}
    /\ order = "sequential" =>
          /\ ~slot
          /\ winner = firstArg
          /\ \A c \in Handles : ~Sending(c)

\* C1 witness: after the first call, a later call on another clone, carrying
\* another reason, has run up to its return, and the wait has resolved to the
\* first reason.
C1_Witness ==
    /\ order = "sequential"
    /\ outcome = Requested(firstArg)
    /\ \E c \in Handles :
          /\ pc[c] = "unlock"
          /\ arg[c] # firstArg

\* C2: under every interleaving of concurrent stop calls on distinct clones,
\* exactly one call takes the endpoint and transmits: the endpoint is taken at
\* most once, only the thread that took it is ever transmitting, with the
\* winning reason, and the wait resolves at most once and only to
\* Requested(winning reason).
C2_OneWinner ==
    /\ takes <= 1
    /\ \A c \in Handles :
          pc[c] \in {"send", "send_store", "send_recheck"} =>
              /\ guard = c
              /\ takes = 1
              /\ arg[c] = winner
    /\ data \in {0, winner}
    /\ outcome.kind = "Requested" => (takes = 1 /\ outcome.reason = winner)
    /\ ~reready

\* C2 witness: two calls overlapped, one won the race, the wait resolved to its
\* reason, and the losing call (with another reason) is returning.
C2_Witness ==
    /\ order = "overlapped"
    /\ outcome = Requested(winner)
    /\ \E c \in Handles :
          /\ pc[c] = "unlock"
          /\ arg[c] # winner

\* C3: the wait resolves to Requested(r) only for the reason r of the call
\* that deposited, whether the deposit came before the first poll, during a
\* poll or while the wait was suspended; and the value in the channel is
\* that reason.
C3_RequestedIsDeposited ==
    /\ outcome.kind = "Requested" =>
          /\ winner \in Reasons
          /\ outcome = Requested(winner)
          /\ signalAt \in {"unpolled", "polling", "suspended"}
    /\ ret.kind = "Requested" => ret = Requested(winner)
    /\ data # 0 => data = winner

\* C3 witness: the deposit was complete before the wait was first polled, and
\* the wait then resolved to the deposited reason.
C3_Witness ==
    /\ signalAt = "unpolled"
    /\ takes = 1
    /\ outcome = Requested(winner)

\* C4: once every clone of the handle has been dropped and no stop call was
\* ever made, the wait (unless it is dropped itself) eventually resolves to
\* HandleLost.
C4_AllDroppedResolvesLost ==
    (handles = {} /\ order = "none") ~> (outcome = HandleLost \/ wait = "dropped")

\* C4 witness: all clones are gone, no stop call was made, and the wait has
\* resolved to HandleLost.
C4_Witness ==
    /\ handles = {}
    /\ order = "none"
    /\ outcome = HandleLost

\* C5: while a clone is alive and no stop call has been made, the wait is
\* pending: no poll has returned Ready, the wait is not terminated, its task
\* has not been woken, and the channel of a live wait is not complete.
C5_PendingWhileCloneAlive ==
    (handles # {} /\ order = "none") =>
        /\ outcome = NoValue
        /\ ret \in {NoValue, Pending}
        /\ ~is_terminated
        /\ ~notified
        /\ wait = "alive" => ~complete

\* C5 witness: the original handle was dropped, its clone is alive, no stop
\* call was made, and the wait was polled and is suspended.
C5_Witness ==
    /\ handles = {2}
    /\ order = "none"
    /\ ret = Pending
    /\ wpc = "idle"
    /\ \A c \in Handles : pc[c] = "idle"

\* C6: once a stop call has taken the endpoint, no poll returns HandleLost: a
\* poll that is about to resolve finds the deposited value in the channel, at
\* whatever point of the transmission or of the clones' drops it runs.
C6_NoLostAfterDeposit ==
    takes >= 1 =>
        /\ ret # HandleLost
        /\ outcome # HandleLost
        /\ (wpc = "recv_final" /\ (done \/ complete)) => data # 0

\* C6 witness: the sender completed while a poll was running, every clone has
\* been dropped since, and the wait resolved to the deposited reason.
C6_Witness ==
    /\ takes = 1
    /\ signalAt = "polling"
    /\ handles = {}
    /\ outcome = Requested(winner)

\* C7: whenever the wait has resolved to HandleLost, no stop call has been made
\* or has taken the endpoint, no clone is alive, no call is running, and
\* neither the slot nor the channel holds anything.
C7_LostMeansNoDeposit ==
    outcome = HandleLost =>
        /\ takes = 0
        /\ winner = 0
        /\ order = "none"
        /\ handles = {}
        /\ ~slot
        /\ data = 0
        /\ \A c \in Handles : pc[c] \notin {"lock", "send", "send_store", "send_recheck", "unlock"}

\* C7 witness: the wait was suspended when the last clone was dropped, and it
\* resolved to HandleLost.
C7_Witness ==
    /\ outcome = HandleLost
    /\ signalAt = "suspended"
    /\ takes = 0

\* C8: a wait that was polled and is suspended resolves (unless it is dropped)
\* once a reason is in the channel or once the last clone is gone without a
\* deposit: the wakeup is not lost in any interleaving.
C8_SuspendedWaitResolves ==
    (/\ wait = "alive"
     /\ fuse
     /\ ret = Pending
     /\ \/ data # 0
        \/ handles = {} /\ takes = 0)
        ~> (outcome # NoValue \/ wait = "dropped")

\* C8 witness: the wait was suspended when a stop call from another thread
\* completed its deposit, and it has resolved to that reason.
C8_Witness ==
    /\ signalAt = "suspended"
    /\ takes = 1
    /\ outcome = Requested(winner)
    /\ ret = Requested(winner)

\* C9: a wait resolves once: no poll returns Ready after a poll has, and a
\* Ready value that a poll returned is the one first returned.
C9_ResolvesOnce ==
    /\ ~reready
    /\ ret.kind \in {"HandleLost", "Requested"} => ret = outcome
    /\ outcome # NoValue => ~fuse

\* C9 witness: the wait resolved, was polled again while stop and drop went
\* on, and that poll did not return Ready.
C9_Witness ==
    /\ outcome # NoValue
    /\ ret = Pending
    /\ wpc = "idle"
    /\ takes = 1

\* C10: once the wait has resolved, it is terminated and stays so under every
\* later step (polls, stop calls, drops), and every is_terminated call made
\* then reports true and changes nothing else.
C10_TerminatedAbsorbing ==
    [][/\ is_terminated => is_terminated'
       /\ outcome # NoValue => (is_terminated /\ is_terminated')
       /\ (outcome # NoValue /\ CheckTerminated) =>
              (termSeen' = TRUE /\ outcome' = outcome /\ ret' = ret)]_vars

\* C10 witness: the wait resolved and a later is_terminated call reported true.
C10_Witness ==
    /\ outcome # NoValue
    /\ termSeen = TRUE
    /\ wait = "alive"

\* C11 as stated: once the wait has resolved, no poll of it returns Pending.
C11_NoPendingAfterResolved ==
    outcome # NoValue => ret # Pending

\* C11 amended: a poll of a wait that has resolved returns at once, without
\* polling the receiver or storing a waker and without returning Ready again;
\* what it returns is Pending.
C11_PollAfterResolvedIsInert ==
    [][(outcome # NoValue /\ PollBegin) =>
          /\ ret' = Pending
          /\ wpc' = "idle"
          /\ UNCHANGED <<chanVars, fuse, outcome, reready>>]_vars

\* C11 witness: the wait resolved to HandleLost, was polled again, and that
\* poll returned Pending with no waker stored.
C11_Witness ==
    /\ outcome = HandleLost
    /\ ret = Pending
    /\ wpc = "idle"
    /\ ~rx_task

HandlesUsable ==
    \A c \in Handles :
        /\ (c \in handles /\ pc[c] = "idle") =>
              /\ \A r \in Reasons : ENABLED StopCall(c, r)
              /\ ENABLED DropHandle(c)
              /\ (\E n \in Handles \ handles : pc[n] = "idle") => ENABLED Clone(c)
        /\ pc[c] \notin {"idle", "lock"} => ENABLED CallerStep(c)
        /\ (pc[c] = "lock" /\ guard = 0) => ENABLED LockTake(c)

\* C13: dropping the wait before it has resolved changes nothing on the handle
\* side (live clones, slot, mutex, running calls), and in every state after
\* the drop clone, stop and drop remain callable, with as many live clones
\* and the slot as full as the handle operations alone have made them.
C13_WaitDropLeavesHandles ==
    /\ [][(WaitDrop /\ outcome = NoValue) => UNCHANGED handleVars]_vars
    /\ [](wait = "dropped" =>
            /\ HandlesUsable
            /\ takes = 0 /\ handles # {} => slot)

\* C13 witness: the wait was dropped unresolved; the slot still holds the
\* endpoint and two clones are alive, one of them starting a stop call.
C13_Witness ==
    /\ wait = "dropped"
    /\ outcome = NoValue
    /\ slot
    /\ handles = {1, 2}
    /\ pc[2] = "lock"

\* C14: the slot is write-once.  It holds the endpoint from creation until a
\* stop call takes it (or the last clone is dropped with it); only those two
\* steps empty it, and no step of stop, clone, drop or poll fills an empty
\* slot again.
C14_SlotWriteOnce ==
    /\ slot = TRUE
    /\ [](slot \/ takes >= 1 \/ handles = {})
    /\ [][/\ ~slot => ~slot'
          /\ (slot /\ ~slot') =>
                \E c \in Handles : (LockTake(c) /\ takes' = 1) \/ (DropHandle(c) /\ handles' = {})]_vars

\* C14 witness: the endpoint was taken by the first stop call, the wait has
\* resolved, a clone made since is starting another stop call, and the slot
\* is empty.
C14_Witness ==
    /\ ~slot
    /\ takes = 1
    /\ order = "sequential"
    /\ outcome = Requested(winner)
    /\ handles = {1, 2}
    /\ \E c \in Handles : pc[c] = "lock"

\* C15: a stop call that finds the slot empty has no side effect: neither the
\* step that locks and finds None nor the return that releases the guard
\* changes the slot (it stays empty), the channel and the value in it, the
\* state of the wait and of its task, what the wait resolved to, or the set
\* of live clones.
C15_EmptyStopNoEffect ==
    [][\A c \in Handles :
          (~slot /\ (LockTake(c) \/ Return(c))) =>
              /\ ~slot'
              /\ UNCHANGED <<handles, chanVars, waitVars, notified, outcome, reready,
                             takes, winner>>]_vars

\* C15 witness: with the deposited value still in the channel and the wait
\* suspended, a second stop call with another reason found the slot empty
\* and is returning.
C15_Witness ==
    \E c \in Handles :
        /\ pc[c] = "unlock"
        /\ takes = 1
        /\ arg[c] # winner
        /\ data = winner
        /\ data # 0
        /\ ret = Pending
        /\ wpc = "idle"

\* C16 as stated: the mutex is held only while the endpoint is checked and
\* taken, so a thread that is transmitting the reason (inside send, or
\* dropping the sender that send consumed) does not hold it; and no step of
\* the waiter acquires it.
C16_LockOnlyForTake ==
    /\ \A c \in Handles :
          pc[c] \in {"send", "send_store", "send_recheck", "dtx_store", "dtx_lock", "dtx_wake"}
              => guard # c
    /\ guard \in Handles \cup {0}

\* C17: the waiter's task is woken only by the step of the sender's drop that
\* takes a stored waker, which comes after the channel was completed by a
\* deposit or by the drop of the last clone; clone, the drop of a clone that
\* is not the last, and a stop call that finds the slot empty leave the task
\* and the stored waker alone.
C17_WokenOnlyBySender ==
    [][/\ (notified' /\ ~notified) =>
              \E c \in Handles : DropTxWake(c) /\ complete /\ rx_task
       /\ (\/ \E h \in Handles : Clone(h)
           \/ \E c \in Handles : DropHandle(c) /\ handles' # {}
           \/ \E c \in Handles : LockTake(c) /\ ~slot) =>
              UNCHANGED <<notified, rx_task, complete, data>>]_vars

\* C17 witness: the wait was suspended when a deposit completed, its task has
\* been woken and not polled yet, and the value is in the channel.
C17_Witness ==
    /\ notified
    /\ signalAt = "suspended"
    /\ takes = 1
    /\ data = winner
    /\ data # 0
    /\ ret = Pending
    /\ wpc = "idle"
    /\ wait = "alive"

\* C18: as long as no poll has returned Ready the wait is not terminated and
\* no is_terminated call has reported true, whatever the slot and the
\* channel hold.
C18_NotTerminatedBeforeReady ==
    outcome = NoValue => (~is_terminated /\ termSeen = FALSE)

\* C18 witness: a reason has been deposited and the channel is complete, every
\* clone is gone, the wait has not been polled since, and it is not
\* terminated.
C18_Witness ==
    /\ outcome = NoValue
    /\ wait = "alive"
    /\ wpc = "idle"
    /\ complete
    /\ data # 0
    /\ handles = {}
    /\ ~is_terminated

\* C19: once the wait has been dropped the channel is complete, and a stop
\* call made then still takes the endpoint out of the slot when it is there;
\* its send fails at its first check, so the reason is never written, no step
\* of the call is blocked, and the call goes on to drop the sender and
\* return; a call that finds the slot empty changes neither slot nor channel.
C19_StopAfterWaitDropped ==
    /\ [](wait = "dropped" => complete)
    /\ [][wait = "dropped" =>
            \A c \in Handles :
                /\ (LockTake(c) /\ slot) => (~slot' /\ pc'[c] = "send" /\ data' = 0)
                /\ SendCheck(c) => (pc'[c] = "dtx_store" /\ data = 0 /\ data' = 0)
                /\ (LockTake(c) /\ ~slot) =>
                      (pc'[c] = "unlock" /\ UNCHANGED <<slot, chanVars>>)
                /\ pc[c] \notin {"idle", "lock"} => ENABLED CallerStep(c)]_vars

\* C19 witness: the wait was dropped unresolved, a stop call took the endpoint,
\* nothing is in the channel, and a later stop call on another clone, which
\* found the slot empty, is returning.
C19_Witness ==
    /\ wait = "dropped"
    /\ outcome = NoValue
    /\ ret = NoValue
    /\ takes = 1
    /\ ~slot
    /\ data = 0
    /\ signalAt = "finished"
    /\ order = "sequential"
    /\ \E c \in Handles : pc[c] = "unlock" /\ arg[c] # winner

====
